---- MODULE Spec2Model ----
(***************************************************************************)
(* The in-memory virtual file system of internal/pkg/fs/fs.go:             *)
(* VirtualFileSystem (root, cwd), its node tree, the path resolver         *)
(* (findHelper), the tree builder (Set, createChildren) and the file       *)
(* descriptors handed out by Open; and the Wait of the docker progress.    *)
(*                                                                         *)
(* Strings and byte slices are sequences of one-character strings, so that *)
(* strings.IndexByte and the slicing of nameRem are computed as the code   *)
(* computes them.  The node tree is an arena: `nodes` is the sequence of   *)
(* all allocated nodes in allocation order, a *node is an index into it    *)
(* (0 is the nil pointer) and node 1 is fs.root.                           *)
(***************************************************************************)
EXTENDS Integers, Sequences, FiniteSets, TLC

VARIABLES
    nodes,  \* the arena of nodes; nodes[1] is fs.root
    fd,     \* the virtualFileDescriptor the client holds, or NoFd
    last,   \* what the last completed call was and what it returned
    walk,   \* the findHelper of the resolution in progress (stepwise runs)
    wait    \* the Wait of a pull or push in progress, or NoWait

vars == <<nodes, fd, last, walk, wait>>

----------------------------------------------------------------------------
(* Bounds of the model *)

\* longest path string handed to Set, Open and Stat
MaxPathLen == 3
\* most nodes the arena may hold (the root included)
MaxNodes == 3
\* longest buffer handed to Read
MaxBuf == 2

(* Program constants *)

\* the largest value of findHelper.links that is not yet an error
MaxLinks == 255

----------------------------------------------------------------------------
(* Strings *)

Sep == "/"
NameChars == {"x", "y", "."}
Chars == NameChars \cup {Sep}

StrUpTo(k) == UNION {[1..j -> Chars] : j \in 0..k}

\* s[k:] and s[:k] of Go, k counted from 0
SliceFrom(s, k) == SubSeq(s, k + 1, Len(s))
SliceTo(s, k) == SubSeq(s, 1, k)

\* strings.IndexByte(s, c): the 0-based index of the first c in s, or -1
IndexByte(s, c) ==
    LET hits == {i \in 1..Len(s) : s[i] = c}
    IN  IF hits = {} THEN -1
        ELSE (CHOOSE i \in hits : \A j \in hits : i <= j) - 1

Min(a, b) == IF a <= b THEN a ELSE b

----------------------------------------------------------------------------
(* Modes, errors, nodes *)

ModeDir == "ModeDir"
ModeSymlink == "ModeSymlink"
ModeNamedPipe == "ModeNamedPipe"
\* os.ModeType, restricted to the type bits the model uses
ModeType == {ModeDir, ModeSymlink, ModeNamedPipe}

\* os.FileMode.IsDir and os.FileMode.IsRegular
IsDir(m) == ModeDir \in m
IsRegular(m) == m \cap ModeType = {}

NoErr == "nil"
ENOTDIR == "syscall.ENOTDIR"
ErrNotExist == "os.ErrNotExist"
EOF == "io.EOF"
errBadMode == "errBadMode"
errIsDirDisagreement == "errIsDirDisagreement"
errTooManyLinks == "errTooManyLinks"
\* the panic of validateNameComp, and of a failed type assertion on node.extra
errNameComp == "errNameComp"
errTypeAssertion == "errTypeAssertion"
\* the runtime panic of a slice expression out of range
errSliceBounds == "errSliceBounds"
NoPanic == "none"

\* the error values a test injects into nodes
InjectedErrors == {"E1", "E2"}

\* node.extra: a []*node for a directory, a []byte for anything else
DirExtra(children) == [kind |-> "nodes", children |-> children, bytes |-> <<>>]
BytesExtra(bytes) == [kind |-> "bytes", children |-> <<>>, bytes |-> bytes]

\* newDirNode(mode, name): a directory node without children or injected error
newDirNode(mode, name) ==
    [name |-> name, mode |-> mode \cup {ModeDir}, err |-> NoErr,
     extra |-> DirExtra(<<>>)]

\* n.dirLookup(nameComp): the first child of n with that name, or nil
dirLookup(tree, n, nameComp) ==
    LET kids == tree[n].extra.children
        hits == {i \in 1..Len(kids) : tree[kids[i]].name = nameComp}
    IN  IF hits = {} THEN 0
        ELSE kids[CHOOSE i \in hits : \A j \in hits : i <= j]

\* n.dirAppend(childN): childN is allocated and becomes the last child of n
dirAppend(tree, n, childN) ==
    LET id == Len(tree) + 1
    IN  Append([tree EXCEPT ![n].extra.children = Append(@, id)], childN)

----------------------------------------------------------------------------
(* The path resolver: findHelper *)

\* fs.cwd, set by NewVirtualFileSystem and never changed
cwd == <<Sep>>

abs(name) ==
    IF name = <<>> \/ name[1] # Sep THEN cwd \o name ELSE name

validateNameComp(nameComp) ==
    IF nameComp = <<".">> \/ nameComp = <<".", ".">>
    THEN errNameComp ELSE NoPanic

\* getChildN that finds no child in any directory
getChildN_NeverFinds(tree, f, nameComp) ==
    IF nameComp = <<>>
    THEN [childN |-> 0, err |-> NoErr, panic |-> NoPanic]
    ELSE IF validateNameComp(nameComp) # NoPanic
    THEN [childN |-> 0, err |-> NoErr, panic |-> validateNameComp(nameComp)]
    ELSE IF ModeDir \notin tree[f.n].mode
    THEN [childN |-> 0, err |-> ENOTDIR, panic |-> NoPanic]
    ELSE [childN |-> 0, err |-> ErrNotExist, panic |-> NoPanic]

getChildN(tree, f, nameComp) ==
    IF nameComp = <<>>
    THEN [childN |-> 0, err |-> NoErr, panic |-> NoPanic]
    ELSE IF validateNameComp(nameComp) # NoPanic
    THEN [childN |-> 0, err |-> NoErr, panic |-> validateNameComp(nameComp)]
    ELSE IF ModeDir \notin tree[f.n].mode
    THEN [childN |-> 0, err |-> ENOTDIR, panic |-> NoPanic]
    ELSE IF tree[f.n].extra.kind # "nodes"
    THEN [childN |-> 0, err |-> NoErr, panic |-> errTypeAssertion]
    ELSE LET childN == dirLookup(tree, f.n, nameComp)
         IN  IF childN = 0
             THEN [childN |-> 0, err |-> ErrNotExist, panic |-> NoPanic]
             ELSE [childN |-> childN, err |-> NoErr, panic |-> NoPanic]

getNameComp(f, slashPos) ==
    IF slashPos < 0 THEN f.nameRem ELSE SliceTo(f.nameRem, slashPos)

updateNameRemFromSlashPos(f, slashPos) ==
    IF slashPos < 0
    THEN [f EXCEPT !.nameRem = <<>>]
    ELSE [f EXCEPT !.nameRem = SliceFrom(f.nameRem, slashPos + 1)]

\* updateFromChildN without the count of the links followed
updateFromChildN_NoCount(tree, f, childN) ==
    IF ModeSymlink \in tree[childN].mode
    THEN IF f.resolveSymlinks
         THEN IF tree[childN].extra.kind # "bytes"
              THEN [f |-> f, err |-> NoErr, panic |-> errTypeAssertion]
              ELSE LET target == tree[childN].extra.bytes
                       isAbs == Len(target) > 0 /\ target[1] = Sep
                       j == IF isAbs THEN 1 ELSE 0
                   IN  [f |-> [f EXCEPT
                                 !.n = IF isAbs THEN 1 ELSE f.n,
                                 !.nameRem = SliceFrom(target, j) \o <<Sep>>
                                                 \o f.nameRem],
                        err |-> NoErr, panic |-> NoPanic]
         ELSE [f |-> f, err |-> NoErr, panic |-> NoPanic]
    ELSE [f |-> [f EXCEPT !.n = childN], err |-> NoErr, panic |-> NoPanic]

\* updateFromChildN refusing the link that reaches the bound
updateFromChildN_OffByOne(tree, f, childN) ==
    IF ModeSymlink \in tree[childN].mode
    THEN IF f.resolveSymlinks
         THEN LET g == [f EXCEPT !.links = f.links + 1]
              IN  IF g.links >= MaxLinks
                  THEN [f |-> g, err |-> errTooManyLinks, panic |-> NoPanic]
                  ELSE IF tree[childN].extra.kind # "bytes"
                  THEN [f |-> g, err |-> NoErr, panic |-> errTypeAssertion]
                  ELSE LET target == tree[childN].extra.bytes
                           isAbs == Len(target) > 0 /\ target[1] = Sep
                           j == IF isAbs THEN 1 ELSE 0
                       IN  [f |-> [g EXCEPT
                                     !.n = IF isAbs THEN 1 ELSE g.n,
                                     !.nameRem = SliceFrom(target, j) \o <<Sep>>
                                                     \o g.nameRem],
                            err |-> NoErr, panic |-> NoPanic]
         ELSE [f |-> f, err |-> NoErr, panic |-> NoPanic]
    ELSE [f |-> [f EXCEPT !.n = childN], err |-> NoErr, panic |-> NoPanic]

\* updateFromChildN following an absolute target from the directory of the
\* symlink instead of the root
updateFromChildN_NoReroot(tree, f, childN) ==
    IF ModeSymlink \in tree[childN].mode
    THEN IF f.resolveSymlinks
         THEN LET g == [f EXCEPT !.links = f.links + 1]
              IN  IF g.links > MaxLinks
                  THEN [f |-> g, err |-> errTooManyLinks, panic |-> NoPanic]
                  ELSE IF tree[childN].extra.kind # "bytes"
                  THEN [f |-> g, err |-> NoErr, panic |-> errTypeAssertion]
                  ELSE LET target == tree[childN].extra.bytes
                           isAbs == Len(target) > 0 /\ target[1] = Sep
                           j == IF isAbs THEN 1 ELSE 0
                       IN  [f |-> [g EXCEPT
                                     !.nameRem = SliceFrom(target, j) \o <<Sep>>
                                                     \o g.nameRem],
                            err |-> NoErr, panic |-> NoPanic]
         ELSE [f |-> f, err |-> NoErr, panic |-> NoPanic]
    ELSE [f |-> [f EXCEPT !.n = childN], err |-> NoErr, panic |-> NoPanic]

updateFromChildN(tree, f, childN) ==
    IF ModeSymlink \in tree[childN].mode
    THEN IF f.resolveSymlinks
         THEN LET g == [f EXCEPT !.links = f.links + 1]
              IN  IF g.links > MaxLinks
                  THEN [f |-> g, err |-> errTooManyLinks, panic |-> NoPanic]
                  ELSE IF tree[childN].extra.kind # "bytes"
                  THEN [f |-> g, err |-> NoErr, panic |-> errTypeAssertion]
                  ELSE LET target == tree[childN].extra.bytes
                           isAbs == Len(target) > 0 /\ target[1] = Sep
                           j == IF isAbs THEN 1 ELSE 0
                       IN  [f |-> [g EXCEPT
                                     !.n = IF isAbs THEN 1 ELSE g.n,
                                     !.nameRem = SliceFrom(target, j) \o <<Sep>>
                                                     \o g.nameRem],
                            err |-> NoErr, panic |-> NoPanic]
         ELSE [f |-> f, err |-> NoErr, panic |-> NoPanic]
    ELSE [f |-> [f EXCEPT !.n = childN], err |-> NoErr, panic |-> NoPanic]

\* a turn of the loop that looks the next name up before it tests the
\* injected error of the node it stands on
runIter_LookupFirst(tree, f) ==
    LET slashPos == IndexByte(f.nameRem, Sep)
        nameComp == getNameComp(f, slashPos)
        c == getChildN(tree, f, nameComp)
    IN  IF c.panic # NoPanic \/ c.err # NoErr
        THEN [f |-> f, returned |-> TRUE, err |-> c.err, panic |-> c.panic]
        ELSE IF ~f.ignoreInjectedFaults /\ tree[f.n].err # NoErr
        THEN [f |-> f, returned |-> TRUE, err |-> tree[f.n].err,
              panic |-> NoPanic]
        ELSE
        LET g == updateNameRemFromSlashPos(f, slashPos)
        IN  IF nameComp # <<>>
            THEN LET u == updateFromChildN(tree, g, c.childN)
                 IN  [f |-> u.f,
                      returned |-> (u.err # NoErr \/ u.panic # NoPanic),
                      err |-> u.err, panic |-> u.panic]
            ELSE [f |-> g, returned |-> FALSE, err |-> NoErr, panic |-> NoPanic]

\* one turn of the loop of run, entered with f.nameRem # "".  returned tells
\* whether run returns (or panics) in this turn.
runIter(tree, f) ==
    IF ~f.ignoreInjectedFaults /\ tree[f.n].err # NoErr
    THEN [f |-> f, returned |-> TRUE, err |-> tree[f.n].err, panic |-> NoPanic]
    ELSE
    LET slashPos == IndexByte(f.nameRem, Sep)
        nameComp == getNameComp(f, slashPos)
        c == getChildN(tree, f, nameComp)
    IN  IF c.panic # NoPanic \/ c.err # NoErr
        THEN [f |-> f, returned |-> TRUE, err |-> c.err, panic |-> c.panic]
        ELSE
        LET g == updateNameRemFromSlashPos(f, slashPos)
        IN  IF nameComp # <<>>
            THEN LET u == updateFromChildN(tree, g, c.childN)
                 IN  [f |-> u.f,
                      returned |-> (u.err # NoErr \/ u.panic # NoPanic),
                      err |-> u.err, panic |-> u.panic]
            ELSE [f |-> g, returned |-> FALSE, err |-> NoErr, panic |-> NoPanic]

\* what run returns once the loop has ended
runEnd(tree, f) ==
    IF ~f.ignoreInjectedFaults /\ tree[f.n].err # NoErr
    THEN [f |-> f, err |-> tree[f.n].err, panic |-> NoPanic]
    ELSE [f |-> f, err |-> NoErr, panic |-> NoPanic]

RECURSIVE run(_, _)
run(tree, f) ==
    IF f.nameRem = <<>>
    THEN runEnd(tree, f)
    ELSE LET r == runIter(tree, f)
         IN  IF r.returned
             THEN [f |-> r.f, err |-> r.err, panic |-> r.panic]
             ELSE run(tree, r.f)

\* the findHelper that find builds
newFindHelper(name, ignoreInjectedFaults, resolveSymlinks) ==
    [ignoreInjectedFaults |-> ignoreInjectedFaults,
     links |-> 0,
     nameRem |-> SliceFrom(abs(name), 1),
     n |-> 1,
     resolveSymlinks |-> resolveSymlinks]

find(tree, name, ignoreInjectedFaults, resolveSymlinks) ==
    LET r == run(tree, newFindHelper(name, ignoreInjectedFaults, resolveSymlinks))
    IN  [n |-> r.f.n, nameRem |-> r.f.nameRem, err |-> r.err,
         panic |-> r.panic, links |-> r.f.links]

----------------------------------------------------------------------------
(* The tree builder: createChildren and Set *)

\* the node createChildren initialises as per the VirtualFile
\* the node of the last component taking the Content for its payload
\* whatever the mode
newLeafNode_AlwaysBytes(nameComp, vfile) ==
    [name |-> nameComp, mode |-> vfile.Mode, err |-> vfile.Error,
     extra |-> BytesExtra(vfile.Content)]

newLeafNode(nameComp, vfile) ==
    [name |-> nameComp, mode |-> vfile.Mode, err |-> vfile.Error,
     extra |-> IF ModeDir \notin vfile.Mode
               THEN BytesExtra(vfile.Content) ELSE DirExtra(<<>>)]

\* createChildren returns nothing; tree is the arena it leaves behind, also
\* when it panics half way, n the node it appended last
RECURSIVE createChildren(_, _, _, _)
createChildren(tree, n, nameRem, vfile) ==
    LET slashPos == IndexByte(nameRem, Sep)
        nameComp == IF slashPos < 0 THEN nameRem ELSE SliceTo(nameRem, slashPos)
    IN  IF nameComp # <<>>
        THEN IF validateNameComp(nameComp) # NoPanic
             THEN [tree |-> tree, n |-> n, panic |-> validateNameComp(nameComp)]
             ELSE IF tree[n].extra.kind # "nodes"
             THEN [tree |-> tree, n |-> n, panic |-> errTypeAssertion]
             ELSE IF slashPos < 0
             THEN [tree |-> dirAppend(tree, n, newLeafNode(nameComp, vfile)),
                   n |-> Len(tree) + 1, panic |-> NoPanic]
             ELSE createChildren(
                      dirAppend(tree, n, newDirNode({ModeDir}, nameComp)),
                      Len(tree) + 1, SliceFrom(nameRem, slashPos + 1), vfile)
        ELSE IF slashPos < 0
             THEN [tree |-> tree, n |-> n, panic |-> NoPanic]
             ELSE createChildren(tree, n, SliceFrom(nameRem, slashPos + 1), vfile)

\* the switch of Set taking every type bit of the mode for its flag
typeFlag_Whole(mode) == mode \cap ModeType

\* the flag the switch of Set picks for a mode
typeFlag(mode) ==
    IF IsDir(mode) THEN {ModeDir}
    ELSE IF ModeSymlink \in mode THEN {ModeSymlink}
    ELSE {}

\* what Set does once find has returned r
setFound(tree, vfile, r) ==
    IF r.panic # NoPanic
    THEN [tree |-> tree, n |-> 0, panic |-> r.panic]
    ELSE IF r.err = ENOTDIR
    THEN [tree |-> tree, n |-> 0, panic |-> errIsDirDisagreement]
    ELSE IF r.nameRem # <<>>
    THEN createChildren(tree, r.n, r.nameRem, vfile)
    ELSE IF (ModeDir \in tree[r.n].mode) # (ModeDir \in vfile.Mode)
    THEN [tree |-> tree, n |-> 0, panic |-> errIsDirDisagreement]
    ELSE [tree |-> [tree EXCEPT
                      ![r.n].mode = vfile.Mode,
                      ![r.n].err = vfile.Error,
                      ![r.n].extra = IF ModeDir \notin vfile.Mode
                                     THEN BytesExtra(vfile.Content)
                                     ELSE @],
          n |-> r.n, panic |-> NoPanic]

\* Set(name, vfile) on the arena tree: the arena afterwards, the panic that
\* ended the call (NoPanic when it returned) and the node set or appended
Set(tree, name, vfile) ==
    IF vfile.Mode \cap (ModeType \ typeFlag(vfile.Mode)) # {}
    THEN [tree |-> tree, n |-> 0, panic |-> errBadMode]
    ELSE setFound(tree, vfile, find(tree, name, TRUE, FALSE))

\* the tree NewVirtualFileSystem starts from, before it applies data
emptyTree == <<newDirNode({}, <<Sep>>)>>

----------------------------------------------------------------------------
(* Open, Stat and the file descriptor *)

NoFd == [node |-> 0, readPos |-> 0]

\* the descriptor Open builds from what find returned
openFound(r) ==
    IF r.panic # NoPanic \/ r.err # NoErr
    THEN [fd |-> NoFd, err |-> r.err, panic |-> r.panic]
    ELSE [fd |-> [node |-> r.n, readPos |-> 0], err |-> NoErr,
          panic |-> NoPanic]

Open(tree, name) == openFound(find(tree, name, FALSE, TRUE))

\* the os.FileInfo Stat returns is the node itself
statFound(r) ==
    IF r.panic # NoPanic \/ r.err # NoErr
    THEN [n |-> 0, err |-> r.err, panic |-> r.panic]
    ELSE [n |-> r.n, err |-> NoErr, panic |-> NoPanic]

Stat(tree, name) == statFound(find(tree, name, FALSE, TRUE))

\* r.Read(p) with len(p) = plen: the bytes copied into p, the error, and the
\* descriptor afterwards
Read(tree, r, plen) ==
    IF ~IsRegular(tree[r.node].mode)
    THEN [data |-> <<>>, err |-> errBadMode, panic |-> NoPanic, fd |-> r]
    ELSE IF plen > 0
    THEN IF tree[r.node].extra.kind # "bytes"
         THEN [data |-> <<>>, err |-> NoErr, panic |-> errTypeAssertion, fd |-> r]
         ELSE
         LET fileContents == tree[r.node].extra.bytes
         IN  IF r.readPos > Len(fileContents)
             THEN [data |-> <<>>, err |-> NoErr, panic |-> errSliceBounds, fd |-> r]
             ELSE
             LET n == Min(plen, Len(fileContents) - r.readPos)
             IN  [data |-> SubSeq(fileContents, r.readPos + 1, r.readPos + n),
                  err |-> IF n = 0 THEN EOF ELSE NoErr,
                  panic |-> NoPanic,
                  fd |-> [r EXCEPT !.readPos = r.readPos + n]]
    ELSE [data |-> <<>>, err |-> NoErr, panic |-> NoPanic, fd |-> r]

errNotSupported == "not supported"

\* r.Readdir(n): the nodes listed
Readdir(tree, r, n) ==
    IF ~IsDir(tree[r.node].mode)
    THEN [infos |-> <<>>, err |-> ENOTDIR, panic |-> NoPanic]
    ELSE IF n > 0
    THEN [infos |-> <<>>, err |-> NoErr, panic |-> errNotSupported]
    ELSE IF tree[r.node].extra.kind # "nodes"
    THEN [infos |-> <<>>, err |-> NoErr, panic |-> errTypeAssertion]
    ELSE [infos |-> tree[r.node].extra.children, err |-> NoErr,
          panic |-> NoPanic]

----------------------------------------------------------------------------
(* Inputs *)

\* a path string whose names are single characters
ShortNames(p) == \A i \in 1..(Len(p) - 1) : p[i] = Sep \/ p[i + 1] = Sep

Paths == {p \in StrUpTo(MaxPathLen) : ShortNames(p)} \cup {<<".", ".">>}

\* file contents and symlink targets
Contents == {<<Sep, "x">>, <<"y">>}

\* the modes of the descriptors handed to Set: regular, directory, symlink,
\* and two that are no file type the file system knows
ValidModes == {{}, {ModeDir}, {ModeSymlink}}
BadModes == {{ModeDir, ModeSymlink}, {ModeNamedPipe}}

\* the Error of the descriptors handed to Set
SetErrors == {NoErr, "E1"}

VirtualFiles ==
    [Content : Contents, Mode : ValidModes, Error : SetErrors]
    \cup [Content : {<<"y">>}, Mode : BadModes, Error : {NoErr}]

\* the entries of the maps handed to NewVirtualFileSystem in the runs that
\* start from a constructed tree
DataEntries ==
    { [name |-> <<Sep, "x">>,
       vfile |-> [Content |-> <<"y">>, Mode |-> {ModeSymlink}, Error |-> NoErr]],
      [name |-> <<Sep, "y">>,
       vfile |-> [Content |-> <<Sep, "x">>, Mode |-> {ModeSymlink}, Error |-> NoErr]],
      [name |-> <<Sep, "y">>,
       vfile |-> [Content |-> <<"y">>, Mode |-> {ModeSymlink}, Error |-> NoErr]],
      [name |-> <<Sep, "x">>,
       vfile |-> [Content |-> <<>>, Mode |-> {ModeDir}, Error |-> NoErr]],
      [name |-> <<Sep, "x">>,
       vfile |-> [Content |-> <<>>, Mode |-> {ModeDir}, Error |-> "E1"]],
      [name |-> <<"x", Sep, "y">>,
       vfile |-> [Content |-> <<"y">>, Mode |-> {}, Error |-> NoErr]],
      [name |-> <<"x", Sep, "y">>,
       vfile |-> [Content |-> <<Sep, "x">>, Mode |-> {ModeSymlink}, Error |-> "E2"]],
      [name |-> <<Sep, "y">>,
       vfile |-> [Content |-> <<Sep, "x">>, Mode |-> {}, Error |-> "E2"]] }

\* most entries of such a map
MaxData == 2

\* a map in the order in which NewVirtualFileSystem happens to range over it
DataOrders ==
    {d \in UNION {[1..k -> DataEntries] : k \in 0..MaxData} :
        \A i, j \in 1..Len(d) : i # j => d[i].name # d[j].name}

\* NewVirtualFileSystem(data), data ranged over in the order of the sequence
RECURSIVE applyData(_, _)
applyData(acc, data) ==
    IF data = <<>> \/ acc.panic # NoPanic THEN acc
    ELSE applyData(Set(acc.tree, Head(data).name, Head(data).vfile), Tail(data))

NewVirtualFileSystem(data) ==
    applyData([tree |-> emptyTree, n |-> 1, panic |-> NoPanic], data)

----------------------------------------------------------------------------
(* The calls of the client, each one atomic *)

Idle == [pc |-> "idle"]

\* no pull or push is being waited for
NoWait == [pc |-> "idle"]

Init ==
    /\ nodes = NewVirtualFileSystem(<<>>).tree
    /\ fd = NoFd
    /\ last = [op |-> "NewVirtualFileSystem", err |-> NoErr, panic |-> NoPanic,
               n |-> 1]
    /\ walk = Idle
    /\ wait = NoWait

CallSet(name, vfile) ==
    LET r == Set(nodes, name, vfile)
    IN  /\ walk.pc = "idle"
        /\ Len(r.tree) <= MaxNodes
        /\ nodes' = r.tree
        /\ last' = [op |-> "Set", err |-> NoErr, panic |-> r.panic, n |-> r.n]
        /\ UNCHANGED <<fd, walk, wait>>

Next ==
    \/ \E name \in Paths, vfile \in VirtualFiles : CallSet(name, vfile)

Spec == Init /\ [][Next]_vars

----------------------------------------------------------------------------
(* Open and Stat with the loop of run taken one turn at a time, on a tree  *)
(* built by NewVirtualFileSystem.  fd is the descriptor the client works   *)
(* with: the one its last successful Open returned.                        *)

InitWalk ==
    /\ \E data \in DataOrders :
          /\ NewVirtualFileSystem(data).panic = NoPanic
          /\ nodes = NewVirtualFileSystem(data).tree
    /\ fd = NoFd
    /\ last = [op |-> "NewVirtualFileSystem", err |-> NoErr, panic |-> NoPanic,
               n |-> 1]
    /\ walk = Idle
    /\ wait = NoWait

Pending(op) == [op |-> op, err |-> "pending", panic |-> NoPanic, n |-> 0]

BeginOpen(name) ==
    /\ walk.pc = "idle"
    /\ walk' = [pc |-> "run", op |-> "Open", f |-> newFindHelper(name, FALSE, TRUE),
                err |-> NoErr, panic |-> NoPanic]
    /\ last' = Pending("Open")
    /\ UNCHANGED <<nodes, fd, wait>>

BeginStat(name) ==
    /\ walk.pc = "idle"
    /\ walk' = [pc |-> "run", op |-> "Stat", f |-> newFindHelper(name, FALSE, TRUE),
                err |-> NoErr, panic |-> NoPanic]
    /\ last' = Pending("Stat")
    /\ UNCHANGED <<nodes, fd, wait>>

\* what a turn of the loop leaves in walk
afterIter(w, r) ==
    [w EXCEPT !.f = r.f, !.err = r.err, !.panic = r.panic,
              !.pc = IF r.returned THEN "done" ELSE "run"]

WalkIter ==
    /\ walk.pc = "run"
    /\ walk.f.nameRem # <<>>
    /\ walk' = afterIter(walk, runIter(nodes, walk.f))
    /\ UNCHANGED <<nodes, fd, last, wait>>

afterEnd(w, r) ==
    [w EXCEPT !.err = r.err, !.panic = r.panic, !.pc = "done"]

WalkEnd ==
    /\ walk.pc = "run"
    /\ walk.f.nameRem = <<>>
    /\ walk' = afterEnd(walk, runEnd(nodes, walk.f))
    /\ UNCHANGED <<nodes, fd, last, wait>>

\* find hands n, nameRem and err back, and Open or Stat returns
foundOf(w) ==
    [n |-> w.f.n, nameRem |-> w.f.nameRem, err |-> w.err, panic |-> w.panic,
     links |-> w.f.links]

\* a failed Open returns no descriptor, and the client keeps the one it has
ReturnOpen ==
    /\ walk.pc = "done"
    /\ walk.op = "Open"
    /\ fd' = IF openFound(foundOf(walk)).fd = NoFd THEN fd
             ELSE openFound(foundOf(walk)).fd
    /\ last' = [op |-> "Open", err |-> walk.err, panic |-> walk.panic,
                n |-> openFound(foundOf(walk)).fd.node]
    /\ walk' = Idle
    /\ UNCHANGED <<nodes, wait>>

ReturnStat ==
    /\ walk.pc = "done"
    /\ walk.op = "Stat"
    /\ last' = [op |-> "Stat", err |-> walk.err, panic |-> walk.panic,
                n |-> statFound(foundOf(walk)).n]
    /\ walk' = Idle
    /\ UNCHANGED <<nodes, fd, wait>>

readResult(r) ==
    [op |-> "Read", err |-> r.err, panic |-> r.panic, n |-> Len(r.data)]

CallRead(plen) ==
    /\ walk.pc = "idle"
    /\ fd # NoFd
    /\ fd' = Read(nodes, fd, plen).fd
    /\ last' = readResult(Read(nodes, fd, plen))
    /\ UNCHANGED <<nodes, walk, wait>>

readdirResult(r) ==
    [op |-> "Readdir", err |-> r.err, panic |-> r.panic, n |-> Len(r.infos)]

CallReaddir(n) ==
    /\ walk.pc = "idle"
    /\ fd # NoFd
    /\ last' = readdirResult(Readdir(nodes, fd, n))
    /\ UNCHANGED <<nodes, fd, walk, wait>>

\* Close returns nil and changes nothing: the descriptor stays usable
CallClose ==
    /\ walk.pc = "idle"
    /\ fd # NoFd
    /\ last' = [op |-> "Close", err |-> NoErr, panic |-> NoPanic, n |-> 0]
    /\ UNCHANGED <<nodes, fd, walk, wait>>

WalkStep == WalkIter \/ WalkEnd

NextWalk ==
    \/ \E name \in Paths : BeginOpen(name)
    \/ \E name \in Paths : BeginStat(name)
    \/ WalkIter
    \/ WalkEnd
    \/ ReturnOpen
    \/ ReturnStat
    \/ \E plen \in 0..MaxBuf : CallRead(plen)
    \/ \E n \in {-1, 0, 1} : CallReaddir(n)
    \/ CallClose

\* A call that has begun runs on until it returns: weak fairness of the
\* return after the loop and of the turns of the loop.  A turn is possible
\* exactly while walk.pc = "run" and walk.f.nameRem # "", and it always
\* changes walk, so for WalkIter the enabling condition is written out.
WalkFairness ==
    /\ WF_vars(WalkEnd)
    /\ \/ []<>(walk.pc # "run" \/ walk.f.nameRem = <<>>)
       \/ []<><<WalkIter>>_vars

SpecWalk == InitWalk /\ [][NextWalk]_vars /\ WalkFairness

----------------------------------------------------------------------------
(* The progress of a docker pull or push (pullOrPush): Wait reads the      *)
(* stream of JSON status lines one by one.  The code is not part of the    *)
(* sources at hand; it is modelled from its description and from           *)
(* progress_test.go.                                                       *)

\* most status lines in a stream
MaxLines == 2

\* the digests a status text can carry, and the status texts of the lines:
\* a digest followed by a space, a digest after other text, a digest alone
\* and a text without digest
Digests == {"sha256:d1", "sha256:d2"}
Statuses ==
    {"Pull complete"} \cup Digests
        \cup {d \o " " : d \in Digests}
        \cup {"Digest: " \o d : d \in Digests}

\* the digests that s has at position i
digestsAt(s, i) ==
    {d \in Digests : /\ i + Len(d) - 1 <= Len(s)
                     /\ SubSeq(s, i, i + Len(d) - 1) = d}

\* FindDigest(s): the leftmost digest anywhere in s, or "" if there is none
FindDigest(s) ==
    LET at == {i \in 1..Len(s) : digestsAt(s, i) # {}}
    IN  IF at = {} THEN ""
        ELSE CHOOSE d \in digestsAt(s, CHOOSE i \in at : \A j \in at : i <= j) :
                 TRUE

\* a decoded line: its status text and the message of its errorDetail ("" if
\* the line has none)
StatusLines == [status : Statuses, errorDetail : {"", "asdf"}]

\* what the reader ends with after the last line: io.EOF or a read error
ReaderEnds == {EOF, "readerroroops"}

Readers ==
    [lines : UNION {[1..k -> StatusLines] : k \in 0..MaxLines},
     ending : ReaderEnds]

\* the error Wait makes of an errorDetail, which contains its message
detailError(message) == "error: " \o message
errNoDigest == "no digest"

\* newPull(reader), newPush(reader): nothing read yet
newPull(reader) ==
    [pc |-> "run", reader |-> reader, pos |-> 0, digest |-> "",
     err |-> NoErr, calls |-> 0]

\* Wait decodes the next line without returning on a digest
waitLine_KeepsGoing(w) ==
    LET line == w.reader.lines[w.pos + 1]
    IN  [w EXCEPT !.pos = w.pos + 1,
                  !.calls = w.calls + 1,
                  !.digest = IF FindDigest(line.status) # ""
                             THEN FindDigest(line.status) ELSE @]

\* Wait decodes the next line: an errorDetail ends the call with its error,
\* otherwise a digest in the status is kept and the callback is called
waitLine(w) ==
    LET line == w.reader.lines[w.pos + 1]
    IN  IF line.errorDetail # ""
        THEN [w EXCEPT !.pc = "done", !.pos = w.pos + 1, !.digest = "",
                       !.err = detailError(line.errorDetail)]
        ELSE [w EXCEPT !.pos = w.pos + 1,
                       !.calls = w.calls + 1,
                       !.digest = IF FindDigest(line.status) # ""
                                  THEN FindDigest(line.status) ELSE @]

\* the stream has no further line: a read error is returned as it is, the
\* end of the stream without a digest is an error, and otherwise the digest
\* is returned
waitEnd(w) ==
    IF w.reader.ending # EOF
    THEN [w EXCEPT !.pc = "done", !.digest = "", !.err = w.reader.ending]
    ELSE IF w.digest = ""
    THEN [w EXCEPT !.pc = "done", !.err = errNoDigest]
    ELSE [w EXCEPT !.pc = "done"]

InitWait ==
    /\ nodes = emptyTree
    /\ fd = NoFd
    /\ last = [op |-> "NewVirtualFileSystem", err |-> NoErr, panic |-> NoPanic,
               n |-> 1]
    /\ walk = Idle
    /\ \E reader \in Readers : wait = newPull(reader)

WaitLine ==
    /\ wait.pc = "run"
    /\ wait.pos < Len(wait.reader.lines)
    /\ wait' = waitLine(wait)
    /\ UNCHANGED <<nodes, fd, last, walk>>

WaitEnd ==
    /\ wait.pc = "run"
    /\ wait.pos = Len(wait.reader.lines)
    /\ wait' = waitEnd(wait)
    /\ UNCHANGED <<nodes, fd, last, walk>>

NextWait ==
    \/ WaitLine
    \/ WaitEnd

SpecWait == InitWait /\ [][NextWait]_vars

----------------------------------------------------------------------------
(* Reads on an open descriptor taking turns with Set calls that replace    *)
(* the content of files, the file of the descriptor among them.            *)

\* the file the descriptor is opened on, and the other file set
ReadPaths == {<<Sep, "x">>, <<Sep, "y">>}

\* regular files without injected error, of every length up to two
ReadFiles == [Content : Contents \cup {<<>>}, Mode : {{}}, Error : {NoErr}]

InitRead ==
    /\ \E vfile \in ReadFiles :
          /\ nodes = Set(emptyTree, <<Sep, "x">>, vfile).tree
          /\ fd = Open(Set(emptyTree, <<Sep, "x">>, vfile).tree, <<Sep, "x">>).fd
    /\ last = [op |-> "Open", err |-> NoErr, panic |-> NoPanic, n |-> 2]
    /\ walk = Idle
    /\ wait = NoWait

NextRead ==
    \/ \E name \in ReadPaths, vfile \in ReadFiles : CallSet(name, vfile)
    \/ \E plen \in 0..MaxBuf : CallRead(plen)

SpecRead == InitRead /\ [][NextRead]_vars

----------------------------------------------------------------------------
(* Notions the properties are stated with *)

\* the non-empty names of a path, in order
RECURSIVE namesOf(_)
namesOf(rem) ==
    IF rem = <<>> THEN <<>>
    ELSE LET slashPos == IndexByte(rem, Sep)
             nameComp == IF slashPos < 0 THEN rem ELSE SliceTo(rem, slashPos)
             rest == IF slashPos < 0 THEN <<>> ELSE SliceFrom(rem, slashPos + 1)
         IN  IF nameComp = <<>> THEN namesOf(rest)
             ELSE <<nameComp>> \o namesOf(rest)

Names(path) == namesOf(SliceFrom(abs(path), 1))

\* the node a sequence of names addresses in the tree, children taken by
\* name from the root whatever the type of the nodes passed; 0 if there is none
RECURSIVE nodeAt(_, _, _)
nodeAt(tree, n, names) ==
    IF names = <<>> THEN n
    ELSE IF tree[n].extra.kind # "nodes" THEN 0
    ELSE LET childN == dirLookup(tree, n, Head(names))
         IN  IF childN = 0 THEN 0 ELSE nodeAt(tree, childN, Tail(names))

NodeAt(tree, path) == nodeAt(tree, 1, Names(path))

DotFree(path) ==
    \A i \in 1..Len(Names(path)) : validateNameComp(Names(path)[i]) = NoPanic

NoInjected(tree) == \A i \in 1..Len(tree) : tree[i].err = NoErr

\* x -> y and y -> /x under a root without injected error, and the walk at
\* the root about to look up one of the two
InSymlinkCycle ==
    /\ walk.pc = "run"
    /\ nodes[1].err = NoErr
    /\ walk.f.n = 1
    /\ Len(walk.f.nameRem) > 0
    /\ walk.f.nameRem[1] \in {"x", "y"}
    /\ Len(walk.f.nameRem) = 1 \/ walk.f.nameRem[2] = Sep
    /\ NodeAt(nodes, <<Sep, "x">>) # 0
    /\ NodeAt(nodes, <<Sep, "y">>) # 0
    /\ nodes[NodeAt(nodes, <<Sep, "x">>)].mode = {ModeSymlink}
    /\ nodes[NodeAt(nodes, <<Sep, "y">>)].mode = {ModeSymlink}
    /\ nodes[NodeAt(nodes, <<Sep, "x">>)].extra.bytes = <<"y">>
    /\ nodes[NodeAt(nodes, <<Sep, "y">>)].extra.bytes = <<Sep, "x">>

\* some proper prefix of the path names a node that is no directory
HasNonDirPrefix(tree, path) ==
    \E k \in 1..(Len(Names(path)) - 1) :
        /\ nodeAt(tree, 1, SubSeq(Names(path), 1, k)) # 0
        /\ ModeDir \notin tree[nodeAt(tree, 1, SubSeq(Names(path), 1, k))].mode

\* how many leading names of the path address nodes of the tree
ExistingNames(tree, path) ==
    CHOOSE k \in 0..Len(Names(path)) :
        /\ nodeAt(tree, 1, SubSeq(Names(path), 1, k)) # 0
        /\ \A j \in (k + 1)..Len(Names(path)) :
               nodeAt(tree, 1, SubSeq(Names(path), 1, j)) = 0

\* a client that reads with buffers of length plen until Read reports an
\* error: the bytes it has collected, the error and the descriptor then
RECURSIVE readAll(_, _, _, _)
readAll(tree, r, plen, acc) ==
    LET res == Read(tree, r, plen)
    IN  IF res.panic # NoPanic \/ res.err # NoErr
        THEN [data |-> acc \o res.data, err |-> res.err, panic |-> res.panic,
              fd |-> res.fd]
        ELSE readAll(tree, res.fd, plen, acc \o res.data)

\* Open(path) succeeds, reading to the end delivers content, and a further
\* Read returns no bytes and io.EOF
ReadsBack(tree, path, content) ==
    /\ Open(tree, path).panic = NoPanic
    /\ Open(tree, path).err = NoErr
    /\ \A plen \in 1..MaxBuf :
          LET a == readAll(tree, Open(tree, path).fd, plen, <<>>)
          IN  /\ a.data = content
              /\ a.err = EOF
              /\ a.panic = NoPanic
              /\ Read(tree, a.fd, plen) =
                     [data |-> <<>>, err |-> EOF, panic |-> NoPanic, fd |-> a.fd]

----------------------------------------------------------------------------
(* C1 to C5: Set against Open, Stat and the tree, in every reachable tree *)

\* C1: when Set(P, d) with a regular-file d returns and leaves a tree without
\* injected errors, Open(P) succeeds and reading to the end delivers exactly
\* d.Content, followed by io.EOF with no bytes on every further Read
C1_SetOpenRoundTrip ==
    \A P \in Paths : \A d \in VirtualFiles :
        ( /\ d.Mode = {}
          /\ Set(nodes, P, d).panic = NoPanic
          /\ NoInjected(Set(nodes, P, d).tree) )
        => ReadsBack(Set(nodes, P, d).tree, P, d.Content)

\* C2: after Set(P, d) with an injected error d.Error, whatever the type of
\* d, Stat(P) and Open(P) fail with d.Error
C2_InjectedErrorReturned ==
    \A P \in Paths : \A d \in VirtualFiles :
        ( /\ d.Mode \in ValidModes
          /\ d.Error # NoErr
          /\ Set(nodes, P, d).panic = NoPanic )
        => /\ Stat(Set(nodes, P, d).tree, P) =
                  [n |-> 0, err |-> d.Error, panic |-> NoPanic]
           /\ Open(Set(nodes, P, d).tree, P) =
                  [fd |-> NoFd, err |-> d.Error, panic |-> NoPanic]

\* C3: when a proper prefix of P is a regular file or a symlink, Set(P, d)
\* panics with errIsDirDisagreement and leaves the tree as it was (stated
\* for the valid descriptors and the paths without "." and "..")
C3_AncestorConflict ==
    \A P \in Paths : \A d \in VirtualFiles :
        ( /\ d.Mode \in ValidModes
          /\ DotFree(P)
          /\ HasNonDirPrefix(nodes, P) )
        => /\ Set(nodes, P, d).panic = errIsDirDisagreement
           /\ Set(nodes, P, d).tree = nodes

\* C4: when the node at P exists, Set(P, d) panics with errIsDirDisagreement
\* and changes nothing if the node and d disagree on being a directory, and
\* otherwise does not panic so and changes no node but the one at P
C4_TerminalConflict ==
    \A P \in Paths : \A d \in VirtualFiles :
        ( /\ d.Mode \in ValidModes
          /\ DotFree(P)
          /\ NodeAt(nodes, P) # 0 )
        => IF (ModeDir \in nodes[NodeAt(nodes, P)].mode) # (ModeDir \in d.Mode)
           THEN /\ Set(nodes, P, d).panic = errIsDirDisagreement
                /\ Set(nodes, P, d).tree = nodes
           ELSE /\ Set(nodes, P, d).panic # errIsDirDisagreement
                /\ Len(Set(nodes, P, d).tree) = Len(nodes)
                /\ \A i \in 1..Len(nodes) :
                       i # NodeAt(nodes, P) => Set(nodes, P, d).tree[i] = nodes[i]

\* C5: when Set(P, d) returns, a second Set(P, d) returns too and leaves the
\* tree the first one left
C5_SetIdempotent ==
    \A P \in Paths : \A d \in VirtualFiles :
        ( /\ d.Mode \in ValidModes
          /\ Set(nodes, P, d).panic = NoPanic )
        => /\ Set(Set(nodes, P, d).tree, P, d).panic = NoPanic
           /\ Set(Set(nodes, P, d).tree, P, d).tree = Set(nodes, P, d).tree

----------------------------------------------------------------------------
(* C6 *)

\* C6: every resolution that Open or Stat starts comes to an end after
\* finitely many turns of the loop, and one that has run into the cycle
\* x -> y, y -> /x ends with errTooManyLinks
C6_ResolutionTerminates ==
    /\ (walk.pc = "run") ~> (walk.pc = "done")
    /\ InSymlinkCycle ~> (walk.pc = "done" /\ walk.err = errTooManyLinks
                            /\ walk.panic = NoPanic)

\* a resolution on the cyclic tree has ended, with errTooManyLinks
C6_Witness ==
    /\ walk.pc = "done"
    /\ walk.err = errTooManyLinks
    /\ walk.f.links = MaxLinks + 1
    /\ NodeAt(nodes, <<Sep, "x">>) # 0
    /\ NodeAt(nodes, <<Sep, "y">>) # 0
    /\ nodes[NodeAt(nodes, <<Sep, "x">>)].extra.bytes = <<"y">>
    /\ nodes[NodeAt(nodes, <<Sep, "y">>)].extra.bytes = <<Sep, "x">>

----------------------------------------------------------------------------
(* C7 and C8: what Open and Stat return *)

\* C7: Open and Stat never end in a panic; they return nil or one of
\* ENOTDIR, ErrNotExist, errTooManyLinks or an injected error
C7_OpenStatNeverPanic ==
    walk.pc = "done" =>
        /\ walk.panic = NoPanic
        /\ walk.err \in {NoErr, ENOTDIR, ErrNotExist, errTooManyLinks}
                            \cup InjectedErrors

\* the name the walk looks up next
NextName == getNameComp(walk.f, IndexByte(walk.f.nameRem, Sep))

\* the walk stands on a directory without a child of the next name, in a
\* tree without injected errors
AtMissingName ==
    /\ walk.pc = "run"
    /\ walk.f.nameRem # <<>>
    /\ NoInjected(nodes)
    /\ NextName # <<>>
    /\ ModeDir \in nodes[walk.f.n].mode
    /\ dirLookup(nodes, walk.f.n, NextName) = 0

\* C8: a walk that stands on a directory without a child of the next name,
\* in a tree without injected errors, returns ErrNotExist in this turn, at
\* that directory and with the remainder still starting at the missing name
C8_MissingComponent ==
    AtMissingName =>
        runIter(nodes, walk.f) =
            [f |-> walk.f, returned |-> TRUE, err |-> ErrNotExist,
             panic |-> NoPanic]

----------------------------------------------------------------------------
(* C9 and C10: what Set leaves in the tree *)

\* C9: when the node at P exists and agrees with d on being a directory,
\* Set(P, d) returns, the node has d's mode, error and (if no directory)
\* content, and no node has been added
C9_UpdateSemantics ==
    \A P \in Paths : \A d \in VirtualFiles :
        ( /\ d.Mode \in ValidModes
          /\ DotFree(P)
          /\ NodeAt(nodes, P) # 0
          /\ (ModeDir \in nodes[NodeAt(nodes, P)].mode) = (ModeDir \in d.Mode) )
        => /\ Set(nodes, P, d).panic = NoPanic
           /\ Len(Set(nodes, P, d).tree) = Len(nodes)
           /\ Set(nodes, P, d).tree[NodeAt(nodes, P)].mode = d.Mode
           /\ Set(nodes, P, d).tree[NodeAt(nodes, P)].err = d.Error
           /\ ModeDir \notin d.Mode =>
                  Set(nodes, P, d).tree[NodeAt(nodes, P)].extra
                      = BytesExtra(d.Content)

\* the tree after Set(P, d) has created the names of P that were missing:
\* every old node but the parent of the first new one is as before, that
\* parent has one more child, the new nodes before the last are default
\* directories, and the last is d's node, the last child of its parent
CreatedAsDescribed(old, new, P, d) ==
    LET names == Names(P)
        k == ExistingNames(old, P)
        parent == nodeAt(old, 1, SubSeq(names, 1, k))
    IN  /\ Len(new) = Len(old) + (Len(names) - k)
        /\ \A i \in 1..Len(old) : i # parent => new[i] = old[i]
        /\ new[parent] =
               [old[parent] EXCEPT !.extra.children = Append(@, Len(old) + 1)]
        /\ \A j \in (k + 1)..(Len(names) - 1) :
               new[Len(old) + j - k] =
                   [name |-> names[j], mode |-> {ModeDir}, err |-> NoErr,
                    extra |-> DirExtra(<<Len(old) + j - k + 1>>)]
        /\ new[Len(new)] = newLeafNode(names[Len(names)], d)
        /\ nodeAt(new, 1, names) = Len(new)

\* C10: when no node is at P (and no prefix of P is a non-directory),
\* Set(P, d) returns and has created the missing names as described
C10_CreateMissing ==
    \A P \in Paths : \A d \in VirtualFiles :
        ( /\ d.Mode \in ValidModes
          /\ DotFree(P)
          /\ NodeAt(nodes, P) = 0
          /\ ~HasNonDirPrefix(nodes, P) )
        => /\ Set(nodes, P, d).panic = NoPanic
           /\ CreatedAsDescribed(nodes, Set(nodes, P, d).tree, P, d)

----------------------------------------------------------------------------
(* C11: the descriptor is validated before the tree is looked at *)

\* every combination of type bits, with an injected error or without
AnyModeFiles == [Content : {<<"y">>}, Mode : SUBSET ModeType, Error : SetErrors]

\* C11: Set with a mode that carries a type bit besides the one it is
\* classified by panics with errBadMode whatever the path and the tree, and
\* leaves the tree as it was; Set with a purely directory, purely symlink or
\* regular mode never panics with errBadMode
C11_DescriptorValidation ==
    \A P \in Paths : \A d \in AnyModeFiles :
        IF d.Mode \in ValidModes
        THEN Set(nodes, P, d).panic # errBadMode
        ELSE Set(nodes, P, d) = [tree |-> nodes, n |-> 0, panic |-> errBadMode]

\* a Set with an inconsistent mode has been rejected on a tree that holds a
\* node besides the root
C11_Witness ==
    /\ last.op = "Set"
    /\ last.panic = errBadMode
    /\ Len(nodes) > 1

----------------------------------------------------------------------------
(* C12: Readdir on a descriptor of a node that is no directory *)

\* C12: Readdir, whatever its count, on a descriptor whose node is no
\* directory returns errBadMode, the error Read returns on a descriptor
\* whose node is no regular file
C12_ReaddirBadMode ==
    (fd # NoFd /\ ~IsDir(nodes[fd.node].mode)) =>
        \A n \in {-1, 0, 1} :
            /\ Readdir(nodes, fd, n).panic = NoPanic
            /\ Readdir(nodes, fd, n).err = errBadMode

----------------------------------------------------------------------------
(* C13: what Wait returns *)

\* the lines of the stream that carry an errorDetail
ErrorLines(reader) ==
    {i \in 1..Len(reader.lines) : reader.lines[i].errorDetail # ""}

\* the digests in the status texts of the stream
StreamDigests(reader) ==
    {FindDigest(reader.lines[i].status) : i \in 1..Len(reader.lines)} \ {""}

\* C13: Wait returns an error that contains the message of the first line
\* with an errorDetail if there is such a line; else the error of the reader
\* itself if reading fails; else an error if the stream has no digest; and
\* else a digest of the stream with a nil error
C13_WaitOutcome ==
    wait.pc = "done" =>
        IF ErrorLines(wait.reader) # {}
        THEN \E i \in ErrorLines(wait.reader) :
                 /\ \A j \in ErrorLines(wait.reader) : i <= j
                 /\ wait.err = detailError(wait.reader.lines[i].errorDetail)
        ELSE IF wait.reader.ending # EOF
        THEN wait.err = wait.reader.ending
        ELSE IF StreamDigests(wait.reader) = {}
        THEN wait.err # NoErr
        ELSE wait.err = NoErr /\ wait.digest \in StreamDigests(wait.reader)

\* Wait has returned the digest of a stream of two lines
C13_Witness ==
    /\ wait.pc = "done"
    /\ wait.err = NoErr
    /\ wait.digest \in Digests
    /\ Len(wait.reader.lines) = 2
    /\ wait.calls = 2

----------------------------------------------------------------------------
(* C14: the count of the links followed *)

\* the turn of the loop the walk is about to take follows a symlink: the
\* node it stands on is a directory without injected error and the next
\* name is the name of a symlink among its children
AtSymlink ==
    /\ walk.pc = "run"
    /\ walk.f.nameRem # <<>>
    /\ nodes[walk.f.n].err = NoErr
    /\ NextName # <<>>
    /\ NextName \notin {<<".">>, <<".", ".">>}
    /\ ModeDir \in nodes[walk.f.n].mode
    /\ dirLookup(nodes, walk.f.n, NextName) # 0
    /\ ModeSymlink \in nodes[dirLookup(nodes, walk.f.n, NextName)].mode

\* the count stays within the bound while the walk runs, and the walk has
\* ended with errTooManyLinks exactly if the count has passed the bound by one
LinksWithinBound ==
    /\ walk.pc = "run" => walk.f.links <= MaxLinks
    /\ walk.pc = "done" =>
           /\ walk.f.links <= MaxLinks + 1
           /\ (walk.err = errTooManyLinks) = (walk.f.links = MaxLinks + 1)

\* a turn of the loop adds one to the count if it follows a symlink, and
\* nothing otherwise (an empty name, a directory, a file, a failed lookup)
LinksCounted ==
    (walk.pc = "run" /\ walk'.pc \in {"run", "done"}) =>
        walk'.f.links = walk.f.links + (IF AtSymlink THEN 1 ELSE 0)

\* C14: the links followed are counted one by one over the whole path, and
\* a resolution fails with errTooManyLinks exactly when it follows link
\* number MaxLinks + 1; the count never passes MaxLinks + 1
C14_LinkBound == []LinksWithinBound /\ [][LinksCounted]_vars

\* a walk has followed MaxLinks links and runs on
C14_Witness ==
    /\ walk.pc = "run"
    /\ walk.err = NoErr
    /\ walk.f.links = MaxLinks

----------------------------------------------------------------------------
(* C15: following a symlink is resolving its target in its place *)

\* the target T of the symlink the walk is about to follow, and the rest R
\* of the path behind the name of the symlink
LinkTarget == nodes[dirLookup(nodes, walk.f.n, NextName)].extra.bytes
LinkRest ==
    IF IndexByte(walk.f.nameRem, Sep) < 0 THEN <<>>
    ELSE SliceFrom(walk.f.nameRem, IndexByte(walk.f.nameRem, Sep) + 1)

\* the walk that resolves T/R from the root if T is absolute and from the
\* directory of the symlink if not
TargetWalk ==
    IF LinkTarget # <<>> /\ LinkTarget[1] = Sep
    THEN [walk.f EXCEPT !.n = 1,
                        !.nameRem = SliceFrom(LinkTarget, 1) \o <<Sep>> \o LinkRest]
    ELSE [walk.f EXCEPT !.nameRem = LinkTarget \o <<Sep>> \o LinkRest]

\* most turns of the loop a walk is followed for when two walks are
\* compared; the walks of the model that take more turns are the ones that
\* go round a cycle of symlinks until the bound on the links ends them
MaxTurns == 12

\* run, followed for at most k turns of the loop: ended tells whether the
\* walk has returned within them
RECURSIVE runWithin(_, _, _)
runWithin(tree, f, k) ==
    IF f.nameRem = <<>>
    THEN [f |-> f, err |-> runEnd(tree, f).err, panic |-> NoPanic,
          ended |-> TRUE]
    ELSE IF k = 0
    THEN [f |-> f, err |-> NoErr, panic |-> NoPanic, ended |-> FALSE]
    ELSE IF runIter(tree, f).returned
    THEN [f |-> runIter(tree, f).f, err |-> runIter(tree, f).err,
          panic |-> runIter(tree, f).panic, ended |-> TRUE]
    ELSE runWithin(tree, runIter(tree, f).f, k - 1)

\* a walk has ended at the bound on the links
HitsBound(a) == a.ended /\ a.err = errTooManyLinks

\* two walks come to the same end: node, error and panic
SameEnd(a, b) ==
    /\ a.ended = b.ended
    /\ a.ended => /\ a.f.n = b.f.n
                  /\ a.err = b.err
                  /\ a.panic = b.panic

\* C15: a walk about to follow a symlink stands, after the turn, on the
\* root (absolute target) or still on the directory of the symlink (relative
\* target), never on the symlink, with target/rest to resolve; and unless it
\* runs into the bound on the links it ends as the walk that resolves
\* target/rest from there ends, on the same node with the same error
C15_SymlinkRedirection ==
    (AtSymlink /\ walk.f.links < MaxLinks) =>
        /\ runIter(nodes, walk.f).f.n = TargetWalk.n
        /\ runIter(nodes, walk.f).f.nameRem = TargetWalk.nameRem
        /\ \/ HitsBound(runWithin(nodes, walk.f, MaxTurns + 1))
           \/ HitsBound(runWithin(nodes, TargetWalk, MaxTurns))
           \/ SameEnd(runWithin(nodes, walk.f, MaxTurns + 1),
                      runWithin(nodes, TargetWalk, MaxTurns))

\* a walk is about to follow a symlink in a directory below the root whose
\* target is absolute, and the whole walk ends without error
C15_Witness ==
    /\ AtSymlink
    /\ walk.f.n # 1
    /\ LinkTarget # <<>>
    /\ LinkTarget[1] = Sep
    /\ runWithin(nodes, walk.f, MaxTurns + 1).ended
    /\ runWithin(nodes, walk.f, MaxTurns + 1).err = NoErr
    /\ runWithin(nodes, walk.f, MaxTurns + 1).panic = NoPanic

----------------------------------------------------------------------------
(* C16: which failure a walk reports *)

\* a walk that stands on a node with an injected error returns that error
\* in its next turn, whatever is left of the path
InjectedErrorFirst ==
    (walk.pc = "run" /\ nodes[walk.f.n].err # NoErr) =>
        IF walk.f.nameRem = <<>>
        THEN runEnd(nodes, walk.f) =
                 [f |-> walk.f, err |-> nodes[walk.f.n].err, panic |-> NoPanic]
        ELSE runIter(nodes, walk.f) =
                 [f |-> walk.f, returned |-> TRUE,
                  err |-> nodes[walk.f.n].err, panic |-> NoPanic]

\* a walk that has returned reports an injected error exactly if the node
\* it has come to carries one, and then that one
InjectedErrorOfNode ==
    (walk.pc = "done" /\ walk.panic = NoPanic) =>
        /\ (walk.err \in InjectedErrors) = (nodes[walk.f.n].err # NoErr)
        /\ walk.err \in InjectedErrors => walk.err = nodes[walk.f.n].err

\* C16: Open and Stat report the failure of the leftmost failing position:
\* the injected error of the node the walk stands on comes before
\* os.ErrNotExist and syscall.ENOTDIR of what follows, and an injected error
\* is not reported by a walk that has failed before reaching its node
C16_ErrorPrecedence == InjectedErrorFirst /\ InjectedErrorOfNode

\* a walk has returned the injected error of a node although the next name
\* of the path is missing in it or the node is no directory
C16_Witness ==
    /\ walk.pc = "done"
    /\ walk.err \in InjectedErrors
    /\ walk.f.nameRem # <<>>
    /\ NextName # <<>>
    /\ \/ ModeDir \notin nodes[walk.f.n].mode
       \/ dirLookup(nodes, walk.f.n, NextName) = 0

----------------------------------------------------------------------------
(* C17 and C18: what is true of every tree Set can build *)

\* no directory of the tree has two children of the same name
UniqueSiblingNames(tree) ==
    \A n \in 1..Len(tree) :
        \A i, j \in 1..Len(tree[n].extra.children) :
            i # j => tree[tree[n].extra.children[i]].name
                         # tree[tree[n].extra.children[j]].name

\* C17: after any sequence of Set calls from the empty tree, whether they
\* returned or panicked, and after one more Set of any kind, no directory
\* has two children of the same name
C17_UniqueSiblingNames ==
    /\ UniqueSiblingNames(nodes)
    /\ \A P \in Paths : \A d \in VirtualFiles :
           UniqueSiblingNames(Set(nodes, P, d).tree)

\* the root has two children, and the last Set has panicked
C17_Witness ==
    /\ Len(nodes[1].extra.children) = 2
    /\ last.op = "Set"
    /\ last.panic # NoPanic


\* every directory of the tree holds a list of children and every other
\* node a byte string
PayloadMatchesType(tree) ==
    \A n \in 1..Len(tree) :
        (ModeDir \in tree[n].mode) = (tree[n].extra.kind = "nodes")

\* neither Read nor Readdir on a descriptor of the node, nor a walk that
\* follows the node from its directory, fails the type assertion on extra
NoWrongVariant(tree, n) ==
    /\ \A plen \in 0..MaxBuf :
           Read(tree, [node |-> n, readPos |-> 0], plen).panic # errTypeAssertion
    /\ \A c \in {-1, 0, 1} :
           Readdir(tree, [node |-> n, readPos |-> 0], c).panic # errTypeAssertion
    /\ updateFromChildN(tree, newFindHelper(<<Sep>>, FALSE, TRUE), n).panic
           # errTypeAssertion

\* C18: after any sequence of Set calls, and after one more Set of any
\* kind, every directory holds a list of children and every other node a
\* byte string, so that Read, Readdir and the following of a symlink never
\* meet a payload of the wrong variant
C18_PayloadMatchesType ==
    /\ PayloadMatchesType(nodes)
    /\ \A n \in 1..Len(nodes) : NoWrongVariant(nodes, n)
    /\ \A P \in Paths : \A d \in VirtualFiles :
           PayloadMatchesType(Set(nodes, P, d).tree)

\* the last Set has updated a node that existed, and the node is a symlink
C18_Witness ==
    /\ last.op = "Set"
    /\ last.panic = NoPanic
    /\ last.n = 2
    /\ Len(nodes) = 3
    /\ ModeSymlink \in nodes[2].mode
    /\ nodes[2].extra.kind = "bytes"

----------------------------------------------------------------------------
(* C19: the read cursor of a descriptor *)

\* C19: whatever Reads and Sets have gone before, the cursor of a
\* descriptor of a regular file is at most the length of the content the
\* file has now, Read does not panic, and at the end of the content Read
\* returns no bytes and io.EOF
C19_ReadCursorInBounds ==
    (fd # NoFd /\ IsRegular(nodes[fd.node].mode)) =>
        /\ fd.readPos >= 0
        /\ fd.readPos <= Len(nodes[fd.node].extra.bytes)
        /\ \A plen \in 1..MaxBuf :
               /\ Read(nodes, fd, plen).panic = NoPanic
               /\ fd.readPos >= Len(nodes[fd.node].extra.bytes) =>
                      /\ Read(nodes, fd, plen).data = <<>>
                      /\ Read(nodes, fd, plen).err = EOF

----------------------------------------------------------------------------
(* C20: a Set that panics *)

\* C20: a Set that panics, whatever the reason (an inconsistent mode, a
\* disagreement on a directory, a "." or ".." anywhere in the path), leaves
\* the tree as it was before the call
C20_SetAllOrNothing ==
    \A P \in Paths : \A d \in VirtualFiles :
        Set(nodes, P, d).panic # NoPanic => Set(nodes, P, d).tree = nodes

====
